---- MODULE Spec2Model ----
(***************************************************************************)
(* A model of scripts/test_codespaces_modal.py and scripts/sandbox_shell.py *)
(* of pruva-sandbox: the bounded-concurrency batch runner                   *)
(* (run_tests_parallel / bounded_test / run_single_test / print_results /   *)
(* async_main) and the HTTP CONNECT proxy tunnel spliced under grpclib      *)
(* (_setup_proxy_tunnel / _patched_create / _create_tunnel_socket).         *)
(*                                                                          *)
(* The batch runner is asyncio code: one thread, tasks interleave only at   *)
(* an await.  Each action below is the code that runs between one           *)
(* suspension point and the next.                                           *)
(***************************************************************************)
EXTENDS Integers, Sequences, FiniteSets, TLC

(* ------------------------------ bounds -------------------------------- *)

\* longest identifier list passed to run_tests_parallel
MaxIds == 3
\* largest max_parallel passed to run_tests_parallel
MaxParallel == 2
\* longest identifier list of the runs checked under fair scheduling
MaxFairIds == 2
\* most calls of _setup_proxy_tunnel in a run
MaxSetupCalls == 2
\* most connection attempts in a run
MaxAttempts == 2

\* most lines a command prints
MaxStreamLines == 3
\* most lines of a scanned text
MaxTextLines == 2

(* ----------------------------- constants ------------------------------ *)

\* "".join(stdout_lines)[-10000:]
StdoutKept == 10000

\* len("Sandbox timed out")
TimedOutTextLen == 17

\* sock.recv(4096)
RecvSize == 4096

(* --------------------------- batch runner ----------------------------- *)

VARIABLES
    ids,            \* the identifier list (run_tests_parallel's ids)
    max_parallel,   \* run_tests_parallel's max_parallel
    creds,          \* MODAL_TOKEN_ID and MODAL_TOKEN_SECRET are both set
    mainpc,         \* position of async_main: start, connect, gather, exited
    returned,       \* run_tests_parallel has returned its list
    results,        \* the list run_tests_parallel returned
    exit_status,    \* the process exit status (-1 while running)
    semaphore,      \* the value of asyncio.Semaphore(max_parallel)
    pc,             \* per task: the await it is suspended at
    result,         \* per started task: the result dict of run_single_test
    hung,           \* tasks whose pending SDK call never completes
    exc,            \* per task: the exception an SDK call raised in it
    createOk,       \* number of Sandbox.create calls that returned a sandbox
    terminateCalls, \* number of sb.terminate calls made
    completed,      \* the tasks in the order they finished
    events          \* per task: its acquire, create, terminate, release

batchVars == <<ids, max_parallel, creds, mainpc, returned, results, exit_status,
               semaphore, pc, result, hung, exc, createOk, terminateCalls,
               completed, events>>


\* the identifiers REPRO ids are drawn from, in submission order
Names == <<"A", "B", "C">>

\* the list of n identifiers A, B, C, A, ...
IdList(n) == [i \in 1..n |-> Names[((i - 1) % Len(Names)) + 1]]

\* proc.returncode of a command that ran to completion
ExitCodes == {0, 1}

\* how an awaited SDK call ends: it returns, raises an Exception, or raises
\* asyncio.TimeoutError
Outcomes == {"ok", "fault", "timeout"}

Tasks == 1..Len(ids)

\* the awaits of run_single_test, in order
InFlight == {"create", "exec", "stream", "wait", "terminate"}

TerminalStatus == {"pass", "fail", "timeout", "error"}

\* the result dict as run_single_test builds it
NewResult(repro_id) ==
    [repro_id |-> repro_id, status |-> "unknown", exit_code |-> -1, stderr |-> ""]

\* "pass" if proc.returncode == 0 else "fail"
StatusOfExit(rc) == IF rc = 0 THEN "pass" ELSE "fail"

\* result after the three assignments that follow proc.wait
Classified(r, rc) == [r EXCEPT !.exit_code = rc, !.status = StatusOfExit(rc)]

\* a handler that leaves a timeout unmarked
HandleExceptionTimeoutUnmarked(r, e) ==
    IF e = "timeout"
    THEN [r EXCEPT !.stderr = "Sandbox timed out"]
    ELSE [r EXCEPT !.status = "error", !.stderr = "Exception: fault"]

\* a handler that records the fault text and keeps the status it found
HandleExceptionKeepsStatus(r, e) ==
    IF e = "timeout"
    THEN [r EXCEPT !.status = "timeout", !.stderr = "Sandbox timed out"]
    ELSE [r EXCEPT !.stderr = "Exception: fault"]

\* the two except clauses of run_single_test
HandleException(r, e) ==
    IF e = "timeout"
    THEN [r EXCEPT !.status = "timeout", !.stderr = "Sandbox timed out"]
    ELSE [r EXCEPT !.status = "error", !.stderr = "Exception: fault"]

\* an acquire that never waits
CanAcquireAlways(value) == TRUE

\* an acquire that keeps the last slot back
CanAcquireAboveOne(value) == value > 1

\* asyncio.Semaphore.acquire proceeds without waiting when the value is positive
CanAcquire(value) == value > 0

InitBatch ==
    /\ ids \in {IdList(n) : n \in 0..MaxIds}
    /\ max_parallel \in 1..MaxParallel
    /\ creds \in BOOLEAN
    /\ mainpc = "start"
    /\ returned = FALSE
    /\ results = <<>>
    /\ exit_status = -1
    /\ semaphore = max_parallel
    /\ pc = [t \in Tasks |-> "idle"]
    /\ result = <<>>
    /\ hung = {}
    /\ exc = [t \in Tasks |-> "none"]
    /\ createOk = 0
    /\ terminateCalls = 0
    /\ completed = <<>>
    /\ events = [t \in Tasks |-> <<>>]

\* async_main up to the first await of run_tests_parallel: no identifiers
\* returns, missing credentials exit 1
AsyncMainStart ==
    /\ mainpc = "start"
    /\ IF Len(ids) = 0
       THEN /\ mainpc' = "exited"
            /\ exit_status' = 0
       ELSE IF ~creds
       THEN /\ mainpc' = "exited"
            /\ exit_status' = 1
       ELSE /\ mainpc' = "connect"
            /\ exit_status' = exit_status
    /\ UNCHANGED <<ids, max_parallel, creds, returned, results, semaphore, pc,
                   result, hung, exc, createOk, terminateCalls, completed,
                   events>>

\* Client.from_credentials and App.lookup; an exception here is caught by
\* nobody and ends the process
Connect ==
    /\ mainpc = "connect"
    /\ \E o \in {"ok", "fault"} :
         IF o = "ok"
         THEN /\ mainpc' = "gather"
              /\ exit_status' = exit_status
         ELSE /\ mainpc' = "exited"
              /\ exit_status' = 1
    /\ UNCHANGED <<ids, max_parallel, creds, returned, results, semaphore, pc,
                   result, hung, exc, createOk, terminateCalls, completed,
                   events>>

\* bounded_test enters "async with semaphore" and run_single_test runs up
\* to its first await; asyncio starts the tasks and wakes waiters in order
Acquire(t) ==
    /\ mainpc = "gather"
    /\ pc[t] = "idle"
    /\ \A u \in Tasks : u < t => pc[u] # "idle"
    /\ CanAcquire(semaphore)
    /\ semaphore' = semaphore - 1
    /\ result' = (t :> NewResult(ids[t])) @@ result
    /\ pc' = [pc EXCEPT ![t] = "create"]
    /\ events' = [events EXCEPT ![t] = Append(@, "acquire")]
    /\ UNCHANGED <<ids, max_parallel, creds, mainpc, returned, results,
                   exit_status, hung, exc, createOk, terminateCalls, completed>>

\* a release that frees no slot
ReleasedNothing(value) == value

\* the semaphore after the exit of "async with semaphore"
Released(value) == value + 1

\* from the end of the try statement to the end of bounded_test: the scan
\* for missing dependencies, the prints, the return and the release of the
\* semaphore; no await in between
Finish(t, r) ==
    /\ result' = [result EXCEPT ![t] = r]
    /\ pc' = [pc EXCEPT ![t] = "done"]
    /\ semaphore' = Released(semaphore)
    /\ completed' = Append(completed, t)
    /\ events' = [events EXCEPT ![t] = Append(@, "release")]

\* an SDK call raised e: the except clause, then the rest of the task
Raise(t, e) ==
    /\ exc' = [exc EXCEPT ![t] = IF e = "timeout" THEN "timeout" ELSE "fault"]
    /\ Finish(t, HandleException(result[t], e))

\* the await of an SDK call of task t can complete
Resumes(t, at) ==
    /\ mainpc = "gather"
    /\ pc[t] = at
    /\ t \notin hung

\* await modal.Sandbox.create.aio(...)
Create(t) ==
    /\ Resumes(t, "create")
    /\ \E o \in Outcomes :
         IF o = "ok"
         THEN /\ createOk' = createOk + 1
              /\ pc' = [pc EXCEPT ![t] = "exec"]
              /\ events' = [events EXCEPT ![t] = Append(@, "create")]
              /\ UNCHANGED <<result, semaphore, completed, exc>>
         ELSE /\ Raise(t, o)
              /\ UNCHANGED createOk
    /\ UNCHANGED <<ids, max_parallel, creds, mainpc, returned, results,
                   exit_status, hung, terminateCalls>>

\* await sb.exec.aio("bash", "-c", ...)
Exec(t) ==
    /\ Resumes(t, "exec")
    /\ \E o \in Outcomes :
         IF o = "ok"
         THEN /\ pc' = [pc EXCEPT ![t] = "stream"]
              /\ UNCHANGED <<result, semaphore, completed, exc, events>>
         ELSE Raise(t, o)
    /\ UNCHANGED <<ids, max_parallel, creds, mainpc, returned, results,
                   exit_status, hung, createOk, terminateCalls>>

\* async for line in proc.stdout, to the end of the stream
Stream(t) ==
    /\ Resumes(t, "stream")
    /\ \E o \in Outcomes :
         IF o = "ok"
         THEN /\ pc' = [pc EXCEPT ![t] = "wait"]
              /\ UNCHANGED <<result, semaphore, completed, exc, events>>
         ELSE Raise(t, o)
    /\ UNCHANGED <<ids, max_parallel, creds, mainpc, returned, results,
                   exit_status, hung, createOk, terminateCalls>>

\* a wait whose slot is given back before the sandbox is torn down
WaitReleasesFirst(t) ==
    /\ Resumes(t, "wait")
    /\ \E o \in Outcomes :
         IF o = "ok"
         THEN /\ \E rc \in ExitCodes :
                   result' = [result EXCEPT ![t] = Classified(result[t], rc)]
              /\ pc' = [pc EXCEPT ![t] = "terminate"]
              /\ terminateCalls' = terminateCalls + 1
              /\ events' = [events EXCEPT ![t] = @ \o <<"release", "terminate">>]
              /\ UNCHANGED <<semaphore, completed, exc>>
         ELSE /\ Raise(t, o)
              /\ UNCHANGED terminateCalls
    /\ UNCHANGED <<ids, max_parallel, creds, mainpc, returned, results,
                   exit_status, hung, createOk>>

\* await proc.wait.aio(), then exit_code, stdout and status are stored and
\* sb.terminate is called
Wait(t) ==
    /\ Resumes(t, "wait")
    /\ \E o \in Outcomes :
         IF o = "ok"
         THEN /\ \E rc \in ExitCodes :
                   result' = [result EXCEPT ![t] = Classified(result[t], rc)]
              /\ pc' = [pc EXCEPT ![t] = "terminate"]
              /\ terminateCalls' = terminateCalls + 1
              /\ events' = [events EXCEPT ![t] = Append(@, "terminate")]
              /\ UNCHANGED <<semaphore, completed, exc>>
         ELSE /\ Raise(t, o)
              /\ UNCHANGED terminateCalls
    /\ UNCHANGED <<ids, max_parallel, creds, mainpc, returned, results,
                   exit_status, hung, createOk>>

\* await sb.terminate.aio() completes; it is the last statement of the try
\* block, so an exception it raises reaches the except clauses too
Terminate(t) ==
    /\ Resumes(t, "terminate")
    /\ \E o \in Outcomes :
         IF o = "ok"
         THEN /\ Finish(t, result[t])
              /\ UNCHANGED exc
         ELSE Raise(t, o)
    /\ UNCHANGED <<ids, max_parallel, creds, mainpc, returned, results,
                   exit_status, hung, createOk, terminateCalls>>

\* the pending SDK call of task t never completes
Hang(t) ==
    /\ mainpc = "gather"
    /\ pc[t] \in InFlight
    /\ t \notin hung
    /\ hung' = hung \cup {t}
    /\ UNCHANGED <<ids, max_parallel, creds, mainpc, returned, results,
                   exit_status, semaphore, pc, result, exc, createOk,
                   terminateCalls, completed, events>>

\* the results in the order the tasks finished (asyncio.as_completed)
GatherAsCompleted == [i \in 1..Len(completed) |-> result[completed[i]]]

\* asyncio.gather(*tasks): the results in the order of the awaitables
Gather == [i \in 1..Len(ids) |-> result[i]]

\* counts that leave the timeouts out of the errors
PrintResultsTimeoutUncounted(rs) ==
    [passed |-> Cardinality({i \in DOMAIN rs : rs[i].status = "pass"}),
     failed |-> Cardinality({i \in DOMAIN rs : rs[i].status = "fail"}),
     errors |-> Cardinality({i \in DOMAIN rs : rs[i].status = "error"})]

\* the counts of print_results
PrintResults(rs) ==
    [passed |-> Cardinality({i \in DOMAIN rs : rs[i].status = "pass"}),
     failed |-> Cardinality({i \in DOMAIN rs : rs[i].status = "fail"}),
     errors |-> Cardinality({i \in DOMAIN rs : rs[i].status \in {"error", "timeout"}})]

\* the end of async_main: sys.exit(1) on a failure or an error
ExitStatus(summary) ==
    IF summary.failed > 0 \/ summary.errors > 0 THEN 1 ELSE 0

\* gather completes when every task has; run_tests_parallel returns and
\* async_main prints the summary and exits
GatherReturn ==
    /\ mainpc = "gather"
    /\ \A t \in Tasks : pc[t] = "done"
    /\ results' = Gather
    /\ returned' = TRUE
    /\ exit_status' = ExitStatus(PrintResults(Gather))
    /\ mainpc' = "exited"
    /\ UNCHANGED <<ids, max_parallel, creds, semaphore, pc, result, hung, exc,
                   createOk, terminateCalls, completed, events>>

TaskStep(t) ==
    \/ Acquire(t)
    \/ Create(t)
    \/ Exec(t)
    \/ Stream(t)
    \/ Wait(t)
    \/ Terminate(t)

MainStep ==
    \/ AsyncMainStart
    \/ Connect
    \/ GatherReturn


(* --------------------------- proxy tunnel ----------------------------- *)

VARIABLES
    proxy_url,      \* PROXY_URL is set
    proxy_auth,     \* the proxy URL carries a username and a password
    setupCalls,     \* number of calls of _setup_proxy_tunnel so far
    patches,        \* _patched_create layers on Channel._create_connection
    attempts,       \* number of connection attempts started so far
    cpc,            \* position of the attempt: idle, connect, send, recv, tls
    target_host,    \* self._host of the attempt
    tunnelCalls,    \* calls of _create_tunnel_socket in this attempt
    origCalls,      \* calls of grpclib's own _create_connection in it
    proxyConns,     \* connections opened to the proxy in this attempt
    connectSent,    \* CONNECT requests sent in this attempt
    sentAuth,       \* the request carried a Proxy-Authorization header
    sock,           \* the proxy socket: none, open, closed
    wire,           \* the bytes the proxy has still to deliver
    resp,           \* the bytes received so far
    tlsStarted,     \* the TLS handshake was started on the socket
    outcome,        \* none, direct, protocol, error
    error           \* the text of the ConnectionError raised, if any

tunnelVars == <<proxy_url, proxy_auth, setupCalls, patches, attempts, cpc,
                target_host, tunnelCalls, origCalls, proxyConns, connectSent,
                sentAuth, sock, wire, resp, tlsStarted, outcome, error>>

CR == "\r"
LF == "\n"
CRLF == <<CR, LF>>

\* the hosts a channel is opened to
Hosts == {"127.0.0.1", "localhost", "::1", "api.modal.com", "10.1.2.3"}

\* the proxy opens the tunnel
Established ==
    <<"H", "T", "T", "P", "/", "1", ".", "1", " ", "2", "0", "0", " ", "C",
      "o", "n", "n", "e", "c", "t", "i", "o", "n", " ", "e", "s", "t", "a",
      "b", "l", "i", "s", "h", "e", "d", CR, LF, CR, LF>>

\* the proxy refuses
Forbidden ==
    <<"H", "T", "T", "P", "/", "1", ".", "1", " ", "4", "0", "3", " ", "F",
      "o", "r", "b", "i", "d", "d", "e", "n", CR, LF, CR, LF>>

\* a refusal followed by a header that holds 200
ForbiddenWithHeader ==
    <<"H", "T", "T", "P", "/", "1", ".", "1", " ", "4", "0", "3", " ", "F",
      "o", "r", "b", "i", "d", "d", "e", "n", CR, LF, "X", "-", "I", "d",
      ":", " ", "2", "0", "0", CR, LF, CR, LF>>

\* a refusal whose reason phrase holds the digits 200
BadGateway ==
    <<"H", "T", "T", "P", "/", "1", ".", "1", " ", "5", "0", "2", " ", "B",
      "a", "d", " ", "G", "a", "t", "e", "w", "a", "y", " ", "1", "0", ".",
      "0", ".", "0", ".", "2", "0", "0", CR, LF, CR, LF>>

\* an HTTP/1.0 proxy opens the tunnel
OldOk ==
    <<"H", "T", "T", "P", "/", "1", ".", "0", " ", "2", "0", "0", " ", "O",
      "K", CR, LF, CR, LF>>

\* the proxy closes before the blank line
CutShort ==
    <<"H", "T", "T", "P", "/", "1", ".", "1", " ", "2", "0", "0", " ", "C",
      "o", "n", "n">>

\* what a proxy may answer to CONNECT
Responses == {Established, Forbidden, ForbiddenWithHeader, BadGateway, OldOk,
              CutShort, <<>>}

\* sub in s, for byte strings
Contains(s, sub) ==
    \E i \in 1..(Len(s) - Len(sub) + 1) : SubSeq(s, i, i + Len(sub) - 1) = sub

\* s.split(sep)[0]
SplitFirst(s, sep) ==
    IF Contains(s, sep)
    THEN LET i == CHOOSE k \in 1..Len(s) :
                    /\ SubSeq(s, k, k + Len(sep) - 1) = sep
                    /\ \A j \in 1..(k - 1) : SubSeq(s, j, j + Len(sep) - 1) # sep
         IN SubSeq(s, 1, i - 1)
    ELSE s

\* the part of s after the first sep
AfterFirst(s, sep) ==
    IF Contains(s, sep)
    THEN SubSeq(s, Len(SplitFirst(s, sep)) + Len(sep) + 1, Len(s))
    ELSE <<>>

\* status_line = resp.split(b"\r\n")[0].decode()
StatusLine(r) == SplitFirst(r, CRLF)

\* the test of the status line: "200" in status_line
Accepted(status_line) == Contains(status_line, <<"2", "0", "0">>)

\* the loop condition of the receive loop: b"\r\n\r\n" not in resp
HeaderComplete(r) == Contains(r, CRLF \o CRLF)

\* a test that knows the IPv4 loopback address only
IsLoopbackIPv4Only(host) == host = "127.0.0.1"

\* a test that takes every host for a loopback address
IsLoopbackAlways(host) == TRUE

\* target_host in ("127.0.0.1", "localhost", "::1")
IsLoopback(host) == host \in {"127.0.0.1", "localhost", "::1"}

\* layers that each open a tunnel of their own
RoutePerLayer(k, host) ==
    IF k = 0 THEN [orig |-> 1, tunnel |-> 0]
    ELSE IF IsLoopback(host) THEN [orig |-> 1, tunnel |-> 0]
    ELSE [orig |-> 0, tunnel |-> k]

\* Channel._create_connection with k _patched_create layers installed: each
\* layer hands a loopback target to the function it replaced (_orig_create)
\* and tunnels every other target; the calls the attempt makes
RECURSIVE Route(_, _)
Route(k, host) ==
    IF k = 0 THEN [orig |-> 1, tunnel |-> 0]
    ELSE IF IsLoopback(host) THEN Route(k - 1, host)
    ELSE [orig |-> 0, tunnel |-> 1]

InitTunnel ==
    /\ proxy_url \in BOOLEAN
    /\ proxy_auth \in BOOLEAN
    /\ proxy_url = FALSE => proxy_auth = FALSE
    /\ setupCalls = 0
    /\ patches = 0
    /\ attempts = 0
    /\ cpc = "idle"
    /\ target_host = ""
    /\ tunnelCalls = 0
    /\ origCalls = 0
    /\ proxyConns = 0
    /\ connectSent = 0
    /\ sentAuth = FALSE
    /\ sock = "none"
    /\ wire = <<>>
    /\ resp = <<>>
    /\ tlsStarted = FALSE
    /\ outcome = "none"
    /\ error = <<>>

\* _setup_proxy_tunnel: nothing without a proxy, else one more layer
SetupProxyTunnel ==
    /\ cpc = "idle"
    /\ setupCalls < MaxSetupCalls
    /\ setupCalls' = setupCalls + 1
    /\ patches' = IF proxy_url THEN patches + 1 ELSE patches
    /\ UNCHANGED <<proxy_url, proxy_auth, attempts, cpc, target_host, tunnelCalls,
                   origCalls, proxyConns, connectSent, sentAuth, sock, wire,
                   resp, tlsStarted, outcome, error>>

\* grpclib opens a channel to host: Channel._create_connection, which is
\* _patched_create when the override is installed
CreateConnection(host) ==
    /\ cpc = "idle"
    /\ setupCalls >= 1
    /\ attempts < MaxAttempts
    /\ attempts' = attempts + 1
    /\ target_host' = host
    /\ proxyConns' = 0
    /\ connectSent' = 0
    /\ sentAuth' = FALSE
    /\ sock' = "none"
    /\ wire' = <<>>
    /\ resp' = <<>>
    /\ tlsStarted' = FALSE
    /\ error' = <<>>
    /\ origCalls' = Route(patches, host).orig
    /\ tunnelCalls' = Route(patches, host).tunnel
    /\ IF Route(patches, host).tunnel = 0
       THEN /\ outcome' = "direct"
            /\ cpc' = "idle"
       ELSE /\ outcome' = "none"
            /\ cpc' = "connect"
    /\ UNCHANGED <<proxy_url, proxy_auth, setupCalls, patches>>

\* the attempt ends with an exception; the socket is left as it is
Fails(text) ==
    /\ outcome' = "error"
    /\ error' = text
    /\ cpc' = "idle"

\* socket.create_connection((proxy_host, proxy_port), timeout=30)
TunnelConnect ==
    /\ cpc = "connect"
    /\ \E ok \in BOOLEAN :
         IF ok
         THEN /\ sock' = "open"
              /\ proxyConns' = proxyConns + 1
              /\ cpc' = "send"
              /\ UNCHANGED <<outcome, error>>
         ELSE /\ Fails(<<"c", "o", "n", "n", "e", "c", "t">>)
              /\ UNCHANGED <<sock, proxyConns>>
    /\ UNCHANGED <<proxy_url, proxy_auth, setupCalls, patches, attempts,
                   target_host, tunnelCalls, origCalls, connectSent, sentAuth,
                   wire, resp, tlsStarted>>

\* sock.sendall(connect_req.encode()); the proxy then answers
TunnelSend ==
    /\ cpc = "send"
    /\ \E ok \in BOOLEAN :
         IF ok
         THEN /\ connectSent' = connectSent + 1
              /\ sentAuth' = proxy_auth
              /\ wire' \in Responses
              /\ cpc' = "recv"
              /\ UNCHANGED <<outcome, error>>
         ELSE /\ Fails(<<"s", "e", "n", "d">>)
              /\ UNCHANGED <<connectSent, sentAuth, wire>>
    /\ UNCHANGED <<proxy_url, proxy_auth, setupCalls, patches, attempts,
                   target_host, tunnelCalls, origCalls, proxyConns, sock, resp,
                   tlsStarted>>

\* the text of ConnectionError(f"CONNECT failed: {status_line}")
ConnectFailed(status_line) ==
    <<"C", "O", "N", "N", "E", "C", "T", " ", "f", "a", "i", "l", "e", "d",
      ":", " ">> \o status_line

\* one pass of the receive loop: chunk = sock.recv(4096); and, once the
\* blank line is in, the test of the status line
TunnelRecv ==
    /\ cpc = "recv"
    /\ \/ /\ wire # <<>>
          /\ \E n \in 1..Len(wire) :
               /\ n <= RecvSize
               /\ resp' = resp \o SubSeq(wire, 1, n)
               /\ wire' = SubSeq(wire, n + 1, Len(wire))
               /\ IF ~HeaderComplete(resp')
                  THEN UNCHANGED <<cpc, sock, outcome, error>>
                  ELSE IF Accepted(StatusLine(resp'))
                  THEN /\ cpc' = "tls"
                       /\ UNCHANGED <<sock, outcome, error>>
                  ELSE /\ sock' = "closed"
                       /\ Fails(ConnectFailed(StatusLine(resp')))
       \/ /\ wire = <<>>
          /\ Fails(<<"c", "l", "o", "s", "e", "d">>)
          /\ UNCHANGED <<sock, wire, resp>>
       \/ /\ Fails(<<"r", "e", "c", "v">>)
          /\ UNCHANGED <<sock, wire, resp>>
    /\ UNCHANGED <<proxy_url, proxy_auth, setupCalls, patches, attempts,
                   target_host, tunnelCalls, origCalls, proxyConns, connectSent,
                   sentAuth, tlsStarted>>

\* loop.create_connection(..., ssl=ssl_ctx, sock=sock,
\* server_hostname=target_host): the TLS handshake over the tunnel
TlsHandshake ==
    /\ cpc = "tls"
    /\ tlsStarted' = TRUE
    /\ \E ok \in BOOLEAN :
         IF ok
         THEN /\ outcome' = "protocol"
              /\ cpc' = "idle"
              /\ UNCHANGED <<sock, error>>
         ELSE /\ sock' = "closed"
              /\ Fails(<<"t", "l", "s">>)
    /\ UNCHANGED <<proxy_url, proxy_auth, setupCalls, patches, attempts,
                   target_host, tunnelCalls, origCalls, proxyConns, connectSent,
                   sentAuth, wire, resp>>

\* no connection was attempted
TunnelIdle ==
    /\ InitTunnel
    /\ proxy_url = FALSE

\* no batch is run
BatchIdle ==
    /\ InitBatch
    /\ ids = <<>>
    /\ max_parallel = 1
    /\ creds = FALSE

(* ----------------------- sizes of stored output ------------------------ *)

\* One run of run_single_test, with its texts reduced to their lengths.

VARIABLES
    spc,            \* the await the run is suspended at, or done
    nlines,         \* len(stdout_lines)
    joined,         \* len("".join(stdout_lines))
    stored          \* the lengths of result["stdout"] and result["stderr"]

sizeVars == <<spc, nlines, joined, stored>>

\* the lengths of the lines a command prints
LineLengths == {1, 4000, 10000}

\* the lengths of type(e).__name__: Exception, ConnectionError
NameLengths == {9, 15}

\* the lengths of str(e)
MessageLengths == {0, 4000, 4990, 10000}

\* len(s[-k:])
TailLen(n, k) == IF n > k THEN k ELSE n

\* len("".join(stdout_lines)[-10000:])
StdoutLen(n) == TailLen(n, StdoutKept)

\* len(f"{type(e).__name__}: {e}")
FaultTextLen(name, message) == name + 2 + message

\* the next await of run_single_test
NextAwait(at) ==
    CASE at = "create" -> "exec"
      [] at = "exec" -> "stream"
      [] at = "wait" -> "terminate"
      [] at = "terminate" -> "done"

InitSize ==
    /\ spc = "create"
    /\ nlines = 0
    /\ joined = 0
    /\ stored = [stdout |-> 0, stderr |-> 0]

\* Sandbox.create, sb.exec or sb.terminate returns
SizeCallReturns ==
    /\ spc \in {"create", "exec", "terminate"}
    /\ spc' = NextAwait(spc)
    /\ UNCHANGED <<nlines, joined, stored>>

\* proc.stdout yields a line: stdout_lines.append(line)
SizeLine ==
    /\ spc = "stream"
    /\ nlines < MaxStreamLines
    /\ \E n \in LineLengths : joined' = joined + n
    /\ nlines' = nlines + 1
    /\ UNCHANGED <<spc, stored>>

\* proc.stdout ends
SizeStreamEnds ==
    /\ spc = "stream"
    /\ spc' = "wait"
    /\ UNCHANGED <<nlines, joined, stored>>

\* proc.wait returns: result["stdout"] = "".join(stdout_lines)[-10000:]
SizeWaitReturns ==
    /\ spc = "wait"
    /\ stored' = [stored EXCEPT !.stdout = StdoutLen(joined)]
    /\ spc' = NextAwait(spc)
    /\ UNCHANGED <<nlines, joined>>

\* an SDK call raises asyncio.TimeoutError: stderr = "Sandbox timed out"
SizeTimeout ==
    /\ spc # "done"
    /\ stored' = [stored EXCEPT !.stderr = TimedOutTextLen]
    /\ spc' = "done"
    /\ UNCHANGED <<nlines, joined>>

\* an SDK call raises an Exception: stderr = f"{type(e).__name__}: {e}"
SizeFault ==
    /\ spc # "done"
    /\ \E name \in NameLengths, message \in MessageLengths :
         stored' = [stored EXCEPT !.stderr = FaultTextLen(name, message)]
    /\ spc' = "done"
    /\ UNCHANGED <<nlines, joined>>

(* --------------------- missing-dependency scan ------------------------ *)

\* The scan at the end of run_single_test, on texts of characters.

VARIABLES
    out_stdout,     \* result["stdout"]
    out_stderr,     \* result["stderr"]
    scanned,        \* the scan has run
    missing,        \* result["missing_deps"]
    origin          \* per entry of missing: the number of the line it is from

scanVars == <<out_stdout, out_stderr, scanned, missing, origin>>

\* "command not found"
CommandNotFound ==
    <<"c", "o", "m", "m", "a", "n", "d", " ", "n", "o", "t", " ", "f", "o",
      "u", "n", "d">>

\* the head of the pattern No module named '([^']+)'
NoModuleNamed ==
    <<"N", "o", " ", "m", "o", "d", "u", "l", "e", " ", "n", "a", "m", "e",
      "d", " ", "'">>

\* the head of the pattern Cannot find module '([^']+)'
CannotFindModule ==
    <<"C", "a", "n", "n", "o", "t", " ", "f", "i", "n", "d", " ", "m", "o",
      "d", "u", "l", "e", " ", "'">>

\* a shell reports a missing command
LineFoo123 ==
    <<"b", "a", "s", "h", ":", " ", "f", "o", "o", "1", "2", "3", ":", " ",
      "c", "o", "m", "m", "a", "n", "d", " ", "n", "o", "t", " ", "f", "o",
      "u", "n", "d">>

\* Python reports a missing module
LineNumpy ==
    <<"M", "o", "d", "u", "l", "e", "N", "o", "t", "F", "o", "u", "n", "d",
      "E", "r", "r", "o", "r", ":", " ", "N", "o", " ", "m", "o", "d", "u",
      "l", "e", " ", "n", "a", "m", "e", "d", " ", "'", "n", "u", "m", "p",
      "y", "'">>

\* node reports a missing package
LineLeftPad ==
    <<"E", "r", "r", "o", "r", ":", " ", "C", "a", "n", "n", "o", "t", " ",
      "f", "i", "n", "d", " ", "m", "o", "d", "u", "l", "e", " ", "'", "l",
      "e", "f", "t", "-", "p", "a", "d", "'">>

\* node reports a missing relative file
LineLocal ==
    <<"E", "r", "r", "o", "r", ":", " ", "C", "a", "n", "n", "o", "t", " ",
      "f", "i", "n", "d", " ", "m", "o", "d", "u", "l", "e", " ", "'", ".",
      "/", "l", "o", "c", "a", "l", "'">>

\* a shell reports a missing absolute path
LineAbsCommand ==
    <<"b", "a", "s", "h", ":", " ", "/", "u", "s", "r", "/", "b", "i", "n",
      "/", "f", "o", "o", ":", " ", "c", "o", "m", "m", "a", "n", "d", " ",
      "n", "o", "t", " ", "f", "o", "u", "n", "d">>

\* node reports a missing absolute file
LineAbsModule ==
    <<"C", "a", "n", "n", "o", "t", " ", "f", "i", "n", "d", " ", "m", "o",
      "d", "u", "l", "e", " ", "'", "/", "a", "b", "s", "'">>

\* a line with the node signature before the Python one
LineTwoKinds ==
    <<"C", "a", "n", "n", "o", "t", " ", "f", "i", "n", "d", " ", "m", "o",
      "d", "u", "l", "e", " ", "'", "a", "'", " ", "(", "N", "o", " ", "m",
      "o", "d", "u", "l", "e", " ", "n", "a", "m", "e", "d", " ", "'", "b",
      "'", ")">>

\* the words with no colon before them
LineBare ==
    <<"c", "o", "m", "m", "a", "n", "d", " ", "n", "o", "t", " ", "f", "o",
      "u", "n", "d">>

\* a line with no signature
LinePlain ==
    <<"o", "k">>

\* "Sandbox timed out"
SandboxTimedOut ==
    <<"S", "a", "n", "d", "b", "o", "x", " ", "t", "i", "m", "e", "d", " ",
      "o", "u", "t">>

\* the lines a command prints
PrintedLines == {LineFoo123, LineNumpy, LineLeftPad, LineLocal, LineAbsCommand,
                 LineAbsModule, LineTwoKinds, LineBare, LinePlain}

\* s.split(sep)
RECURSIVE Split(_, _)
Split(s, sep) ==
    IF Contains(s, sep)
    THEN <<SplitFirst(s, sep)>> \o Split(AfterFirst(s, sep), sep)
    ELSE <<s>>

\* s.strip()
Strip(s) ==
    LET inked == {i \in DOMAIN s : s[i] \notin {" ", "\t", "\r", "\n"}}
    IN IF inked = {} THEN <<>>
       ELSE SubSeq(s, CHOOSE i \in inked : \A j \in inked : i <= j,
                      CHOOSE i \in inked : \A j \in inked : i >= j)

\* s.startswith(p)
StartsWith(s, p) == Len(s) >= Len(p) /\ SubSeq(s, 1, Len(p)) = p

\* the maximal run of characters other than ' that starts at i
RECURSIVE Unquoted(_, _)
Unquoted(s, i) ==
    IF i > Len(s) \/ s[i] = "'" THEN <<>>
    ELSE <<s[i]>> \o Unquoted(s, i + 1)

\* head([^']+)' matches at i
MatchesAt(s, head, i) ==
    /\ i + Len(head) - 1 <= Len(s)
    /\ SubSeq(s, i, i + Len(head) - 1) = head
    /\ Unquoted(s, i + Len(head)) # <<>>
    /\ i + Len(head) + Len(Unquoted(s, i + Len(head))) <= Len(s)

\* re.search(head + "([^']+)'", s): the group of the leftmost match in a
\* one-element sequence, or the empty sequence
Search(s, head) ==
    LET at == {i \in 1..Len(s) : MatchesAt(s, head, i)}
    IN IF at = {} THEN <<>>
       ELSE LET i == CHOOSE k \in at : \A j \in at : k <= j
            IN <<Unquoted(s, i + Len(head))>>

\* the command named by a "command not found" line
CommandDep(line) ==
    IF ~Contains(line, CommandNotFound) THEN <<>>
    ELSE LET parts == Split(line, <<":">>)
         IN IF Len(parts) < 2 THEN <<>>
            ELSE LET cmd == Strip(parts[Len(parts) - 1])
                 IN IF cmd # <<>> /\ ~StartsWith(cmd, <<"/">>)
                    THEN <<[type |-> "command", name |-> cmd]>>
                    ELSE <<>>

\* the module named by a "No module named" line
PythonDep(line) ==
    LET m == Search(line, NoModuleNamed)
    IN IF m # <<>> THEN <<[type |-> "python", name |-> m[1]]>> ELSE <<>>

\* a test that takes only an absolute path for a path
PathLikeAbsoluteOnly(name) == StartsWith(name, <<"/">>)

\* m.group(1).startswith(("/", "."))
PathLike(name) == StartsWith(name, <<"/">>) \/ StartsWith(name, <<".">>)

\* the package named by a "Cannot find module" line
NpmDep(line) ==
    LET m == Search(line, CannotFindModule)
    IN IF m # <<>> /\ ~PathLike(m[1])
       THEN <<[type |-> "npm", name |-> m[1]]>>
       ELSE <<>>

\* a scan that looks for the packages first
LineDepsNpmFirst(line) == NpmDep(line) \o PythonDep(line) \o CommandDep(line)

\* the body of the loop over the lines: what one line adds to missing
LineDeps(line) == CommandDep(line) \o PythonDep(line) \o NpmDep(line)

\* for line in output.split("\n"): the entries of the lines from i on
RECURSIVE DepsFrom(_, _)
DepsFrom(lines, i) ==
    IF i > Len(lines) THEN <<>>
    ELSE LineDeps(lines[i]) \o DepsFrom(lines, i + 1)

\* the line numbers of the entries of DepsFrom
RECURSIVE OriginsFrom(_, _)
OriginsFrom(lines, i) ==
    IF i > Len(lines) THEN <<>>
    ELSE [k \in 1..Len(LineDeps(lines[i])) |-> i] \o OriginsFrom(lines, i + 1)

\* output = result["stdout"] + result["stderr"]; output.split("\n")
OutputLines == Split(out_stdout \o out_stderr, <<LF>>)

InitScan ==
    /\ out_stdout = <<>>
    /\ out_stderr = <<>>
    /\ scanned = FALSE
    /\ missing = <<>>
    /\ origin = <<>>

\* the command prints a line, which ends up in result["stdout"]
ScanPrinted ==
    /\ ~scanned
    /\ out_stderr = <<>>
    /\ Len(Split(out_stdout, <<LF>>)) <= MaxTextLines
    /\ \E line \in PrintedLines : out_stdout' = out_stdout \o line \o <<LF>>
    /\ UNCHANGED <<out_stderr, scanned, missing, origin>>

\* sb.terminate times out: result["stderr"] = "Sandbox timed out"
ScanTimedOut ==
    /\ ~scanned
    /\ out_stderr = <<>>
    /\ out_stderr' = SandboxTimedOut
    /\ UNCHANGED <<out_stdout, scanned, missing, origin>>

\* the scan for missing dependencies
Scan ==
    /\ ~scanned
    /\ scanned' = TRUE
    /\ missing' = DepsFrom(OutputLines, 1)
    /\ origin' = OriginsFrom(OutputLines, 1)
    /\ UNCHANGED <<out_stdout, out_stderr>>

(* --------------------------- specifications --------------------------- *)

vars == <<batchVars, tunnelVars, sizeVars, scanVars>>

\* what a specification leaves alone
besideBatch == <<tunnelVars, sizeVars, scanVars>>
besideTunnel == <<batchVars, sizeVars, scanVars>>
besideSize == <<batchVars, tunnelVars, scanVars>>
besideScan == <<batchVars, tunnelVars, sizeVars>>

Init == InitBatch /\ TunnelIdle /\ InitSize /\ InitScan

Next ==
    \/ MainStep /\ UNCHANGED besideBatch
    \/ (\E t \in Tasks : TaskStep(t)) /\ UNCHANGED besideBatch
    \/ (\E t \in Tasks : Hang(t)) /\ UNCHANGED besideBatch

\* the batch runner
Spec == Init /\ [][Next]_vars

TunnelInit == BatchIdle /\ InitTunnel /\ InitSize /\ InitScan

TunnelNext ==
    \/ SetupProxyTunnel /\ UNCHANGED besideTunnel
    \/ (\E host \in Hosts : CreateConnection(host)) /\ UNCHANGED besideTunnel
    \/ TunnelConnect /\ UNCHANGED besideTunnel
    \/ TunnelSend /\ UNCHANGED besideTunnel
    \/ TunnelRecv /\ UNCHANGED besideTunnel
    \/ TlsHandshake /\ UNCHANGED besideTunnel

TunnelSpec == TunnelInit /\ [][TunnelNext]_vars

SizeInit == BatchIdle /\ TunnelIdle /\ InitSize /\ InitScan

SizeNext ==
    \/ SizeCallReturns /\ UNCHANGED besideSize
    \/ SizeLine /\ UNCHANGED besideSize
    \/ SizeStreamEnds /\ UNCHANGED besideSize
    \/ SizeWaitReturns /\ UNCHANGED besideSize
    \/ SizeTimeout /\ UNCHANGED besideSize
    \/ SizeFault /\ UNCHANGED besideSize

\* one run of run_single_test, by the lengths of its texts
SizeSpec == SizeInit /\ [][SizeNext]_vars

ScanInit == BatchIdle /\ TunnelIdle /\ InitSize /\ InitScan

ScanNext ==
    \/ ScanPrinted /\ UNCHANGED besideScan
    \/ ScanTimedOut /\ UNCHANGED besideScan
    \/ Scan /\ UNCHANGED besideScan

\* the scan for missing dependencies, on the texts a run can store
ScanSpec == ScanInit /\ [][ScanNext]_vars

\* the event loop runs every task that can resume, and an SDK call that is
\* not hung completes
FairInit == Init /\ Len(ids) <= MaxFairIds

FairSpec ==
    /\ FairInit
    /\ [][Next]_vars
    /\ WF_vars(MainStep /\ UNCHANGED besideBatch)
    /\ \A t \in 1..MaxFairIds :
         WF_vars(t \in Tasks /\ TaskStep(t) /\ UNCHANGED besideBatch)

(* ------------------------------ claims -------------------------------- *)

\* the tasks between acquiring and releasing the semaphore
Running == {t \in Tasks : pc[t] \in InFlight}

\* every task of the batch has finished
BatchFinished == Tasks # {} /\ \A t \in Tasks : pc[t] = "done"

\* C1: at every moment the number of tasks inside run_single_test (between
\* acquiring and releasing the semaphore) is at most max_parallel, also for
\* identifier lists longer than max_parallel.
C1_AtMostMaxParallel == Cardinality(Running) <= max_parallel

\* C1 witness: more identifiers than slots, every slot taken, a task waiting
C1_Witness ==
    /\ Len(ids) > max_parallel
    /\ Cardinality(Running) = max_parallel
    /\ \E t \in Tasks : pc[t] = "idle"
    /\ \E t \in Tasks : pc[t] = "done"

\* C2: when the batch has finished, the number of sb.terminate calls equals
\* the number of Sandbox.create calls that succeeded.
C2_TeardownForEveryCreated == BatchFinished => terminateCalls = createOk

\* the multiset of identifiers of the returned results is that of ids
SameIdentifiers(rs) ==
    \A n \in 1..Len(Names) :
        Cardinality({i \in DOMAIN rs : rs[i].repro_id = Names[n]})
            = Cardinality({i \in DOMAIN ids : ids[i] = Names[n]})

\* C3: the returned list holds exactly one result per submitted identifier
\* and every result has a terminal status (never "unknown").
C3_OneTerminalResultEach ==
    returned =>
        /\ Len(results) = Len(ids)
        /\ SameIdentifiers(results)
        /\ \A i \in DOMAIN results : results[i].status \in TerminalStatus

\* C3 witness: a returned batch of three with a fail, a timeout and an error
C3_Witness ==
    /\ returned
    /\ Len(results) = 3
    /\ \E i, j, k \in DOMAIN results :
         /\ results[i].status = "fail"
         /\ results[j].status = "timeout"
         /\ results[k].status = "error"

\* C4: a fault in a task ends that task with status "error"; a task without
\* a fault or a timeout ends with the status of its own exit code whatever
\* its siblings did; a step of a task leaves the results of finished tasks
\* alone; once a task has started the process exits only after every
\* identifier has a result; and a batch with a fault exits non-zero.
C4_FaultContained ==
    /\ \A t \in Tasks : pc[t] = "done" =>
         /\ exc[t] = "fault" => result[t].status = "error"
         /\ exc[t] = "none" => result[t].status = StatusOfExit(result[t].exit_code)
    /\ (mainpc = "exited" /\ \E t \in Tasks : pc[t] # "idle") =>
         /\ returned
         /\ \A t \in Tasks : pc[t] = "done"
         /\ \A i \in Tasks : results[i] = result[i]
    /\ (returned /\ \E t \in Tasks : exc[t] = "fault") => exit_status # 0

\* C4 witness: identifiers A, B, C with limit 2, B faulted: A and C pass,
\* B is an error and the exit status is 1
C4_Witness ==
    /\ returned
    /\ ids = <<"A", "B", "C">>
    /\ max_parallel = 2
    /\ exc = <<"none", "fault", "none">>
    /\ results[1].status = "pass"
    /\ results[2].status = "error"
    /\ results[3].status = "pass"
    /\ exit_status = 1

\* C5: with credentials and at least one identifier run, the process exits
\* non-zero exactly when some task's terminal status is not "pass".
C5_ExitStatusIffNotAllPass ==
    returned =>
        /\ exit_status \in {0, 1}
        /\ exit_status # 0 <=> \E i \in DOMAIN results : results[i].status # "pass"

\* C5 witness: a batch whose only non-passing task timed out exits non-zero
C5_Witness ==
    /\ returned
    /\ creds
    /\ exit_status = 1
    /\ \E i \in DOMAIN results : results[i].status = "timeout"
    /\ \A i \in DOMAIN results : results[i].status \in {"pass", "timeout"}

\* C9 as claimed: the returned list is in completion order.
C9_CompletionOrder == returned => results = GatherAsCompleted

\* C9 amended: the returned list is in submission order: its i-th result is
\* the result of the i-th identifier, whatever the order of completion.
C9_SubmissionOrder ==
    returned =>
        /\ Len(results) = Len(ids)
        /\ \A i \in DOMAIN results :
             /\ results[i].repro_id = ids[i]
             /\ results[i] = result[i]

\* C9 witness: a batch returned whose second task finished first
C9_Witness ==
    /\ returned
    /\ Len(ids) = 3
    /\ completed[1] = 2
    /\ results[1].status # results[2].status

\* C10: a task whose SDK call never completes eventually ends with status
\* "timeout".
C10_HungTaskTimesOut ==
    \A t \in 1..MaxIds :
        (t \in Tasks /\ t \in hung)
            ~> (t \in Tasks /\ pc[t] = "done" /\ result[t].status = "timeout")

\* the loopback addresses the claims name
LoopbackHosts == {"127.0.0.1", "localhost", "::1"}

\* C6: with the override installed, a connection to a loopback address goes
\* to the original connection path and never to the tunnel connector: no
\* connection to the proxy is opened and no CONNECT request is sent.
C6_LoopbackNeverTunnelled ==
    (attempts >= 1 /\ patches >= 1 /\ target_host \in LoopbackHosts) =>
        /\ tunnelCalls = 0
        /\ origCalls = 1
        /\ proxyConns = 0
        /\ connectSent = 0
        /\ sock = "none"
        /\ outcome = "direct"

\* C6 witness: the override installed twice, a connection to ::1 made
C6_Witness ==
    /\ patches = 2
    /\ attempts >= 1
    /\ target_host = "::1"
    /\ origCalls = 1

\* C7: with a proxy configured, a connection attempt to a non-loopback
\* target calls the tunnel connector exactly once and the original
\* connection path not at all; it opens at most one connection to the proxy
\* and sends at most one CONNECT request.
C7_RemoteTunnelledOnce ==
    (proxy_url /\ attempts >= 1 /\ target_host \notin LoopbackHosts) =>
        /\ tunnelCalls = 1
        /\ origCalls = 0
        /\ proxyConns <= 1
        /\ connectSent <= 1
        /\ outcome # "direct"
        /\ outcome = "protocol" => (proxyConns = 1 /\ connectSent = 1)

\* C7 witness: the second attempt, to api.modal.com, reached the RPC
\* protocol over one tunnel
C7_Witness ==
    /\ proxy_url
    /\ attempts = 2
    /\ target_host = "api.modal.com"
    /\ tunnelCalls = 1
    /\ outcome = "protocol"

\* the status code of a status line: its second field
StatusCode(status_line) == SplitFirst(AfterFirst(status_line, <<" ">>), <<" ">>)

\* C8: the tunnel connector returns the stream, and the TLS handshake is
\* started, only when the status code of the first response line is 200;
\* for every other status line the socket is closed, the connect error
\* carries the status line and no TLS handshake is started.
C8_OnlyStatus200 ==
    /\ (cpc = "tls" \/ tlsStarted) =>
         StatusCode(StatusLine(resp)) = <<"2", "0", "0">>
    /\ (HeaderComplete(resp) /\ StatusCode(StatusLine(resp)) # <<"2", "0", "0">>) =>
         /\ sock = "closed"
         /\ outcome = "error"
         /\ error = ConnectFailed(StatusLine(resp))
         /\ ~tlsStarted

\* C13: the status of a result starts as "unknown" and is written once: a
\* status that holds a terminal value is never assigned a different one,
\* and a result is never written after its task has returned it.
C13_StatusWrittenOnce ==
    [][\A t \in 1..MaxIds :
         t \in DOMAIN result =>
             /\ result[t].status \in TerminalStatus =>
                    result'[t].status = result[t].status
             /\ pc[t] = "done" => result'[t] = result[t]]_vars

\* C14: a task whose command ran to completion ends "pass" on exit code 0
\* and "fail" on any other; in every returned result exit_code = 0 exactly
\* when status = "pass".
C14_ExitCodeZeroIffPass ==
    /\ \A t \in Tasks :
         (pc[t] = "done" /\ result[t].exit_code \in ExitCodes) =>
             result[t].status = (IF result[t].exit_code = 0 THEN "pass" ELSE "fail")
    /\ returned =>
         \A i \in DOMAIN results :
             results[i].exit_code = 0 <=> results[i].status = "pass"

\* the place of an event in the life of a task
Rank(e) ==
    CASE e = "acquire" -> 1
      [] e = "create" -> 2
      [] e = "terminate" -> 3
      [] e = "release" -> 4

\* how often e is among the events of task t
Count(t, e) == Cardinality({i \in DOMAIN events[t] : events[t][i] = e})

\* C15: for every task the teardown of its sandbox comes after its creation,
\* the release of its slot comes after the teardown, and nothing (no
\* teardown in particular) follows the release.
C15_SetupTeardownReleaseOrder ==
    \A t \in Tasks :
        /\ \A i, j \in DOMAIN events[t] :
             i < j => Rank(events[t][i]) < Rank(events[t][j])
        /\ Count(t, "terminate") = 1 => Count(t, "create") = 1
        /\ pc[t] = "done" <=> Count(t, "release") = 1
        /\ pc[t] = "terminate" => Count(t, "terminate") = 1

\* C15 witness: a task that created its sandbox, tore it down and then
\* released its slot, beside one that released without a sandbox
C15_Witness ==
    \E t, u \in Tasks :
        /\ events[t] = <<"acquire", "create", "terminate", "release">>
        /\ events[u] = <<"acquire", "release">>

C19_BatchReturns ==
    (mainpc = "gather") ~>
        \/ hung # {}
        \/ /\ returned
           /\ \A t \in Tasks :
                pc[t] = "done" /\ result[t].status \in TerminalStatus

\* C19 witness: a batch with more identifiers than slots has returned and no
\* call hung
C19_Witness ==
    /\ returned
    /\ hung = {}
    /\ Len(ids) > max_parallel
    /\ semaphore = max_parallel

\* C17: calling _setup_proxy_tunnel again changes nothing that a connection
\* can observe: after one or more calls with a proxy, a loopback target
\* takes the original path once and opens no tunnel, any other target opens
\* exactly one tunnel; without a proxy no call installs anything and every
\* target takes the original path.
C17_SetupIdempotent ==
    /\ ~proxy_url => patches = 0
    /\ attempts >= 1 =>
         <<origCalls, tunnelCalls>> =
             IF proxy_url /\ target_host \notin LoopbackHosts
             THEN <<0, 1>>
             ELSE <<1, 0>>

\* C17 witness: after two calls with a proxy, a connection to 10.1.2.3
\* opened one tunnel
C17_Witness ==
    /\ proxy_url
    /\ setupCalls = 2
    /\ patches = 2
    /\ attempts >= 1
    /\ target_host = "10.1.2.3"
    /\ tunnelCalls = 1

\* C20: whenever _create_tunnel_socket raises after the connection to the
\* proxy was opened, the socket has been closed.
C20_NoSocketLeak ==
    (outcome = "error" /\ proxyConns = 1 /\ ~tlsStarted) => sock = "closed"

\* C11: on every exit path the stored stdout is at most 10000 characters
\* long and the stored stderr at most 5000.
C11_StoredOutputBounded ==
    /\ stored.stdout <= 10000
    /\ stored.stderr <= 5000


\* the entries of missing that come from line i, in their order in missing
DetectedAt(i) ==
    LET ks == {k \in DOMAIN missing : origin[k] = i}
    IN IF ks = {} THEN <<>>
       ELSE SubSeq(missing, CHOOSE k \in ks : \A j \in ks : k <= j,
                            CHOOSE k \in ks : \A j \in ks : k >= j)

\* the characters of a name
Foo123 == <<"f", "o", "o", "1", "2", "3">>
Numpy == <<"n", "u", "m", "p", "y">>
LeftPad == <<"l", "e", "f", "t", "-", "p", "a", "d">>

\* C12: once the scan has run, each line of the text has given what the
\* examples say: the line "bash: foo123: command not found" one command
\* dependency foo123; a line containing No module named 'numpy' a python
\* dependency numpy; a line containing Cannot find module 'left-pad' an npm
\* dependency left-pad; and the lines that name ./local, /abs or
\* /usr/bin/foo no dependency at all.
C12_ClassifierExamples ==
    scanned =>
        \A i \in DOMAIN OutputLines :
            LET line == OutputLines[i]
                found == {DetectedAt(i)[k] : k \in DOMAIN DetectedAt(i)}
            IN /\ line = LineFoo123 =>
                      DetectedAt(i) = <<[type |-> "command", name |-> Foo123]>>
               /\ Contains(line, NoModuleNamed \o Numpy \o <<"'">>) =>
                      [type |-> "python", name |-> Numpy] \in found
               /\ Contains(line, CannotFindModule \o LeftPad \o <<"'">>) =>
                      [type |-> "npm", name |-> LeftPad] \in found
               /\ line \in {LineLocal, LineAbsModule, LineAbsCommand} =>
                      DetectedAt(i) = <<>>

\* the scan has run on a text with a relative-file line and then the foo123
\* line, and has reported foo123 alone
C12_Witness ==
    /\ scanned
    /\ Len(OutputLines) >= 2
    /\ OutputLines[1] = LineLocal
    /\ OutputLines[2] = LineFoo123
    /\ missing = <<[type |-> "command", name |-> Foo123]>>
    /\ origin = <<2>>

\* the signature that makes an entry of the given type
Signature(type) ==
    CASE type = "command" -> CommandNotFound
      [] type = "python" -> NoModuleNamed
      [] type = "npm" -> CannotFindModule

\* where sub first starts in s
FirstIndex(s, sub) ==
    CHOOSE i \in 1..Len(s) :
        /\ i + Len(sub) - 1 <= Len(s)
        /\ SubSeq(s, i, i + Len(sub) - 1) = sub
        /\ \A j \in 1..(i - 1) : SubSeq(s, j, j + Len(sub) - 1) # sub

\* where the signature of entry k of missing first starts in its line
SignatureAt(k) == FirstIndex(OutputLines[origin[k]], Signature(missing[k].type))

\* C18: the entries of missing are in the order in which their signatures
\* first appear in the text: of two entries, the earlier one is from an
\* earlier line, or from the same line with its signature further left.
C18_FirstSeenOrder ==
    scanned =>
        \A k, l \in DOMAIN missing :
            k < l =>
                \/ origin[k] < origin[l]
                \/ origin[k] = origin[l] /\ SignatureAt(k) < SignatureAt(l)

\* the place of a kind in the order in which a line is examined
KindRank(type) ==
    CASE type = "command" -> 1
      [] type = "python" -> 2
      [] type = "npm" -> 3

\* C18, as the code has it: the entries of missing are in line order, and
\* the entries of one line are in the order command, python, npm.
C18_LineThenKindOrder ==
    scanned =>
        \A k, l \in DOMAIN missing :
            k < l =>
                \/ origin[k] < origin[l]
                \/ /\ origin[k] = origin[l]
                   /\ KindRank(missing[k].type) < KindRank(missing[l].type)

\* the scan has reported a line's python entry before its npm entry although
\* the npm signature is further left, after an entry of an earlier line
C18_Witness ==
    /\ scanned
    /\ \E k \in DOMAIN missing :
        /\ k + 1 \in DOMAIN missing
        /\ k > 1
        /\ origin[k - 1] < origin[k]
        /\ origin[k] = origin[k + 1]
        /\ missing[k].type = "python"
        /\ missing[k + 1].type = "npm"
        /\ SignatureAt(k + 1) < SignatureAt(k)

====
